---- MODULE Spec2Model ----
(***************************************************************************)
(* Model of include/localization.js (PencilBlue): the Localization class,  *)
(* its process-wide storage tree, the supported-locale index, the         *)
(* per-instance lookup cache and the register / unregister / resolve      *)
(* operations.                                                             *)
(*                                                                         *)
(* Representation of JavaScript values                                     *)
(*   - a string the code takes apart or builds (locale strings, keys,      *)
(*     localization values) is a sequence of one-character strings;        *)
(*   - an optional property is a sequence of length 0 (absent, null or     *)
(*     undefined) or 1 (present);                                          *)
(*   - a plain object used as a map is a sequence of [k, v] entries in     *)
(*     insertion order, which is the order Object.keys reports;            *)
(*   - a value whose type the code tests is a record [t, v], t its type.   *)
(* Property names are ordinary names: none of them is a member of          *)
(* Object.prototype, and no language or country code is "default" or       *)
(* "plugins".                                                              *)
(***************************************************************************)
EXTENDS Integers, Sequences, FiniteSets, TLC

VARIABLES storage, supportedLookup, supported, inst, loading, ops, last

vars == <<storage, supportedLookup, supported, inst, loading, ops, last>>

----------------------------------------------------------------------------
(* Bounds of the model *)

\* number of calls that may change the registry (register, unregister, init)
MaxOps == 2

\* length of the templates given to replaceParameters
MaxTemplate == 4

\* length of the generated locale strings given to parseLocaleStr
MaxLocale == 3

----------------------------------------------------------------------------
(* JavaScript values *)

JsString(s) == [t |-> "string", v |-> s]
JsNull == [t |-> "null", v |-> <<>>]
JsUndefined == [t |-> "undefined", v |-> <<>>]
JsBool(b) == [t |-> "boolean", v |-> IF b THEN <<"1">> ELSE <<>>]
JsThrow == [t |-> "throw", v |-> <<>>]
JsObject == [t |-> "object", v |-> <<>>]
\* a number, by its digits
JsNumber(n) == [t |-> "number", v |-> <<n>>]

isString(x) == x.t = "string"
isObject(x) == x.t = "object"

\* a plain object as an ordered map
Has(o, n) == \E i \in 1..Len(o) : o[i].k = n
Get(o, n) == o[CHOOSE i \in 1..Len(o) : o[i].k = n].v
Put(o, n, val) ==
    IF Has(o, n)
    THEN [i \in 1..Len(o) |-> IF o[i].k = n THEN [k |-> n, v |-> val] ELSE o[i]]
    ELSE Append(o, [k |-> n, v |-> val])
Del(o, n) == SelectSeq(o, LAMBDA e : e.k # n)
ObjectKeys(o) == [i \in 1..Len(o) |-> o[i].k]

----------------------------------------------------------------------------
(* Static properties of the class *)

JS_EXT == <<".", "j", "s">>
LOCALE_PART_SEP == "-"
KEY_SEP == "."

\* Configuration.active.localization.defaultLocale || 'en-US'
getDefaultLocale == <<"e", "n", "-", "U", "S">>

\* k(key): the "private" property name of a language or a country
k(key) == <<"_", "_">> \o key

----------------------------------------------------------------------------
(* Locale codec *)

CaseTable ==
    { <<"e", "E">>, <<"n", "N">>, <<"u", "U">>, <<"s", "S">>,
      <<"f", "F">>, <<"r", "R">>, <<"c", "C">>, <<"a", "A">> }

lowerChar(c) == IF \E p \in CaseTable : p[2] = c
                THEN (CHOOSE p \in CaseTable : p[2] = c)[1] ELSE c
upperChar(c) == IF \E p \in CaseTable : p[1] = c
                THEN (CHOOSE p \in CaseTable : p[1] = c)[2] ELSE c
toLowerCase(s) == [i \in 1..Len(s) |-> lowerChar(s[i])]
toUpperCase(s) == [i \in 1..Len(s) |-> upperChar(s[i])]

\* String.prototype.lastIndexOf, 0-based, -1 coded as the position "before 0":
\* the result is the 1-based position, 0 when there is no occurrence
lastPos(s, pat) ==
    LET hits == { i \in 1..Len(s) :
                    /\ i + Len(pat) - 1 <= Len(s)
                    /\ SubSeq(s, i, i + Len(pat) - 1) = pat }
    IN IF hits = {} THEN 0 ELSE CHOOSE i \in hits : \A j \in hits : j <= i

\* first position of character c in s at or after position from, 0 when none
firstPosFrom(s, c, from) ==
    LET hits == { i \in from..Len(s) : s[i] = c }
    IN IF hits = {} THEN 0 ELSE CHOOSE i \in hits : \A j \in hits : i <= j

\* the first two parts of s.split('-'): parts[0] and parts[1] ('' when missing)
splitParts(s) ==
    LET p1 == firstPosFrom(s, LOCALE_PART_SEP, 1)
    IN IF p1 = 0 THEN <<s, <<>>>>
       ELSE LET rest == SubSeq(s, p1 + 1, Len(s))
                p2 == firstPosFrom(rest, LOCALE_PART_SEP, 1)
            IN <<SubSeq(s, 1, p1 - 1),
                 IF p2 = 0 THEN rest ELSE SubSeq(rest, 1, p2 - 1)>>

\* parseLocaleStr on a string: the locale object {language, countryCode}
parseLocaleStr(filePath) ==
    LET slash == lastPos(filePath, <<"/">>)
        lastSlashPos == IF slash = 0 THEN lastPos(filePath, <<"\\">>) ELSE slash
        ext == lastPos(filePath, JS_EXT)
        \* 1-based position of the extension, or one past the end
        extPos == IF ext = 0 THEN Len(filePath) + 1 ELSE ext
        \* substr(lastSlashPos + 1, extPos - lastSlashPos - 1): a length <= 0 is ''
        locale == IF extPos - 1 < lastSlashPos + 1 THEN <<>>
                  ELSE SubSeq(filePath, lastSlashPos + 1, extPos - 1)
        parts == splitParts(locale)
    IN [language |-> IF parts[1] # <<>> THEN <<toLowerCase(parts[1])>> ELSE <<>>,
        countryCode |-> IF parts[2] # <<>> THEN <<toUpperCase(parts[2])>> ELSE <<>>]

\* parseLocale on a string: the parsed locale, or a throw when the language
\* is not a string
parseLocale(locale) ==
    LET obj == parseLocaleStr(locale)
    IN IF obj.language = <<>> THEN [ok |-> FALSE, obj |-> obj]
       ELSE [ok |-> TRUE, obj |-> obj]

\* formatLocale(language, countryCode) for a string language
formatLocale(language, countryCode) ==
    IF countryCode # <<>>
    THEN toLowerCase(language) \o <<LOCALE_PART_SEP>> \o toUpperCase(countryCode[1])
    ELSE toLowerCase(language)

----------------------------------------------------------------------------
(* Parameter interpolation *)

\* containsParameters: value.search(/{([^{}]*)}/g) >= 0
containsParameters(localizationValue) ==
    \E i \in 1..Len(localizationValue) : \E j \in (i + 1)..Len(localizationValue) :
        /\ localizationValue[i] = "{"
        /\ localizationValue[j] = "}"
        /\ \A m \in (i + 1)..(j - 1) : localizationValue[m] \notin {"{", "}"}

\* variant of the substitution that never uses defaultVal
substitutionNoDefault(params, variable, defaultVal) ==
    IF Has(params, variable) /\ Get(params, variable) # <<>>
    THEN Get(params, variable)
    ELSE variable

\* params[variable] || defaultVal || variable
\* (params maps names to strings; defaultVal is an optional string)
substitution(params, variable, defaultVal) ==
    IF Has(params, variable) /\ Get(params, variable) # <<>>
    THEN Get(params, variable)
    ELSE IF defaultVal # <<>> /\ defaultVal[1] # <<>> THEN defaultVal[1]
    ELSE variable

\* the scanner's loop from position i on: prev is the previous character
\* (<<>> for null), isOpen the capture mode, variable the captured name,
\* val the output so far
RECURSIVE scan(_, _, _, _, _, _, _, _)
scan(value, params, defaultVal, i, prev, isOpen, variable, val) ==
    IF i > Len(value) THEN val
    ELSE LET c == value[i]
         IN IF ~isOpen /\ c = "{" /\ prev # <<"%">>
            THEN scan(value, params, defaultVal, i + 1, <<c>>, TRUE, variable, val)
            ELSE IF isOpen /\ c = "}"
            THEN scan(value, params, defaultVal, i + 1, <<c>>, FALSE, <<>>,
                      val \o substitution(params, variable, defaultVal))
            ELSE IF isOpen
            THEN scan(value, params, defaultVal, i + 1, <<c>>, TRUE,
                      Append(variable, c), val)
            ELSE scan(value, params, defaultVal, i + 1, <<c>>, FALSE, variable,
                      Append(val, c))

replaceParameters(value, params, defaultVal) ==
    scan(value, params, defaultVal, 1, <<>>, FALSE, <<>>, <<>>)

----------------------------------------------------------------------------
(* The storage tree *)

\* a language block or a country block: {__default, __plugins, __<COUNTRY>...}
EmptyBlock == [default |-> <<>>, plugins |-> <<>>, sub |-> <<>>]

\* the value block _registerLocalization stores
ValueBlock(value) == [value |-> value, isParameterized |-> containsParameters(value)]

\* findKeyBlock(key, create): the storage after the call; the block is
\* Get(storage', key) when Has(storage', key)
findKeyBlock(st, key, create) ==
    IF create /\ ~Has(st, key) THEN Put(st, key, <<>>) ELSE st

\* variant of _registerLocalization that writes the slot into a fresh block
registerLocalizationInFresh(st, locale, key, value, plugin) ==
    LET st1 == findKeyBlock(st, key, TRUE)
        keyBlock == Get(st1, key)
        langKey == k(locale.language[1])
        langBlock == IF Has(keyBlock, langKey) THEN Get(keyBlock, langKey)
                     ELSE EmptyBlock
        hasCountry == locale.countryCode # <<>>
        countryKey == k(locale.countryCode[1])
        valueBlock == ValueBlock(value)
        written ==
            IF plugin # <<>>
            THEN [EmptyBlock EXCEPT !.plugins = <<Put(<<>>, plugin[1], valueBlock)>>]
            ELSE [EmptyBlock EXCEPT !.default = <<valueBlock>>]
        langBlock2 ==
            IF hasCountry
            THEN [langBlock EXCEPT !.sub = Put(langBlock.sub, countryKey, written)]
            ELSE [written EXCEPT !.sub = langBlock.sub]
    IN Put(st1, key, Put(keyBlock, langKey, langBlock2))

\* _registerLocalization(locale, key, value, options) for a parsed locale and
\* string key and value: the storage after the call (the call returns true)
registerLocalizationIn(st, locale, key, value, plugin) ==
    LET st1 == findKeyBlock(st, key, TRUE)
        keyBlock == Get(st1, key)
        langKey == k(locale.language[1])
        langBlock == IF Has(keyBlock, langKey) THEN Get(keyBlock, langKey)
                     ELSE EmptyBlock
        hasCountry == locale.countryCode # <<>>
        countryKey == k(locale.countryCode[1])
        insertionBlock ==
            IF hasCountry
            THEN IF Has(langBlock.sub, countryKey) THEN Get(langBlock.sub, countryKey)
                 ELSE EmptyBlock
            ELSE langBlock
        valueBlock == ValueBlock(value)
        written ==
            IF plugin # <<>>
            THEN [insertionBlock EXCEPT !.plugins =
                    <<Put(IF insertionBlock.plugins = <<>> THEN <<>>
                          ELSE insertionBlock.plugins[1], plugin[1], valueBlock)>>]
            ELSE [insertionBlock EXCEPT !.default = <<valueBlock>>]
        langBlock2 ==
            IF hasCountry
            THEN [langBlock EXCEPT !.sub = Put(langBlock.sub, countryKey, written)]
            ELSE written
    IN Put(st1, key, Put(keyBlock, langKey, langBlock2))

\* the type lodash sees in an optional property holding a value block,
\* a plugins map or a block
typeOfProp(opt) == IF opt = <<>> THEN JsUndefined ELSE JsObject

\* countryBlock[options.plugin]: the property of the block named by the plugin
\* (the block's own properties are __default and __plugins)
blockProp(block, name) ==
    IF name = "__default" THEN typeOfProp(block.default)
    ELSE IF name = "__plugins" THEN typeOfProp(block.plugins)
    ELSE JsUndefined

\* __plugins[options.plugin] of a block whose __plugins is an object
pluginProp(block, name) ==
    IF Has(block.plugins[1], name) THEN JsObject ELSE JsUndefined

\* unregisterLocalization(locale, key, options) for a parsed locale and a
\* string key: [ret |-> the value returned or JsThrow, st |-> storage after]
unregisterLocalizationIn(st, locale, key, plugin) ==
    IF ~Has(st, key) THEN [ret |-> JsBool(FALSE), st |-> st]
    ELSE
    LET keyBlock == Get(st, key)
        langKey == k(locale.language[1])
    IN IF ~Has(keyBlock, langKey) THEN [ret |-> JsBool(FALSE), st |-> st]
       ELSE
       LET langBlock == Get(keyBlock, langKey)
           putLang(b) == Put(st, key, Put(keyBlock, langKey, b))
       IN IF locale.countryCode # <<>>
          THEN
            LET countryKey == k(locale.countryCode[1])
                present == Has(langBlock.sub, countryKey)
            IN IF present /\ plugin # <<>>
               THEN \* isString(countryBlock[options.plugin]) ? delete : false
                    IF isString(blockProp(Get(langBlock.sub, countryKey), plugin[1]))
                    THEN [ret |-> JsBool(TRUE), st |-> st]
                    ELSE [ret |-> JsBool(FALSE), st |-> st]
               ELSE IF ~present
               THEN \* langBlock[countryKey].__default of an undefined block
                    [ret |-> JsThrow, st |-> st]
               ELSE LET countryBlock == Get(langBlock.sub, countryKey)
                    IN IF isObject(typeOfProp(countryBlock.default))
                       THEN [ret |-> JsBool(TRUE),
                             st |-> putLang([langBlock EXCEPT !.sub =
                                      Put(langBlock.sub, countryKey,
                                          [countryBlock EXCEPT !.default = <<>>])])]
                       ELSE [ret |-> JsBool(FALSE), st |-> st]
          ELSE IF plugin # <<>> /\ isObject(typeOfProp(langBlock.plugins))
          THEN IF isString(pluginProp(langBlock, plugin[1]))
               THEN [ret |-> JsBool(TRUE),
                     st |-> putLang([langBlock EXCEPT !.plugins =
                                        <<Del(langBlock.plugins[1], plugin[1])>>])]
               ELSE [ret |-> JsBool(FALSE), st |-> st]
          ELSE IF isString(typeOfProp(langBlock.default))
          THEN [ret |-> JsBool(TRUE), st |-> putLang([langBlock EXCEPT !.default = <<>>])]
          ELSE [ret |-> JsBool(FALSE), st |-> st]

\* the reduce of unregisterLocale over Object.keys(storage), from key i on:
\* [n |-> keys removed, thrown |-> a call threw, st |-> storage after]
RECURSIVE unregisterKeys(_, _, _, _, _, _)
unregisterKeys(keys, i, n, st, locale, plugin) ==
    IF i > Len(keys) THEN [n |-> n, thrown |-> FALSE, st |-> st]
    ELSE LET r == unregisterLocalizationIn(st, locale, keys[i], plugin)
         IN IF r.ret = JsThrow THEN [n |-> n, thrown |-> TRUE, st |-> r.st]
            ELSE unregisterKeys(keys, i + 1, n + (IF r.ret = JsBool(TRUE) THEN 1 ELSE 0),
                                r.st, locale, plugin)

----------------------------------------------------------------------------
(* Bulk registration *)

\* a localizations object is a sequence of entries
\* [k |-> property name, t |-> type of the value, s |-> the string, o |-> the object]
Leaf(name, str) == [k |-> name, t |-> "string", s |-> str, o |-> <<>>]
Node(name, obj) == [k |-> name, t |-> "object", s |-> <<>>, o |-> obj]
Other(name) == [k |-> name, t |-> "number", s |-> <<>>, o |-> <<>>]

\* processObj(prefix, obj): the items pushed on the queue
processObj(prefix, obj) ==
    [i \in 1..Len(obj) |->
        [obj[i] EXCEPT !.k = IF prefix # <<>> THEN prefix[1] \o <<KEY_SEP>> \o obj[i].k
                             ELSE obj[i].k]]

\* variant of the while loop that does not count an invalid value as a failure
RECURSIVE registerQueueLenient(_, _, _, _, _)
registerQueueLenient(queue, compoundedResult, st, locale, plugin) ==
    IF queue = <<>> THEN [ok |-> compoundedResult, st |-> st]
    ELSE LET item == Head(queue)
         IN IF item.t = "object"
            THEN registerQueueLenient(Tail(queue) \o processObj(<<item.k>>, item.o),
                                      compoundedResult, st, locale, plugin)
            ELSE IF item.t = "string" /\ compoundedResult
            THEN registerQueueLenient(Tail(queue), TRUE,
                    registerLocalizationIn(st, locale, item.k, item.s, plugin),
                    locale, plugin)
            ELSE registerQueueLenient(Tail(queue), compoundedResult, st, locale, plugin)

\* the while loop of _registerLocale:
\* [ok |-> compoundedResult, st |-> storage after]
RECURSIVE registerQueue(_, _, _, _, _)
registerQueue(queue, compoundedResult, st, locale, plugin) ==
    IF queue = <<>> THEN [ok |-> compoundedResult, st |-> st]
    ELSE LET item == Head(queue)
         IN IF item.t = "object"
            THEN registerQueue(Tail(queue) \o processObj(<<item.k>>, item.o),
                               compoundedResult, st, locale, plugin)
            ELSE IF item.t = "string"
            THEN \* compoundedResult && _registerLocalization(...)
                 IF compoundedResult
                 THEN registerQueue(Tail(queue), TRUE,
                        registerLocalizationIn(st, locale, item.k, item.s, plugin),
                        locale, plugin)
                 ELSE registerQueue(Tail(queue), FALSE, st, locale, plugin)
            ELSE registerQueue(Tail(queue), FALSE, st, locale, plugin)

\* isSupported(locale): false for anything but a non-empty string
isSupported(lookup, locale) ==
    IF ~isString(locale) \/ locale.v = <<>> THEN FALSE
    ELSE LET localeObj == parseLocaleStr(locale.v)
         IN /\ localeObj.language # <<>>
            /\ Has(lookup, formatLocale(localeObj.language[1], localeObj.countryCode))

\* variant of _registerLocale that adds the locale to the lookup whatever
\* compoundedResult is
registerLocaleInAlways(st, lookup, sup, locale, localizations, plugin) ==
    LET finish(r, lookup2) ==
            [ok |-> r.ok, st |-> r.st, lookup |-> lookup2,
             supported |-> <<ObjectKeys(lookup2)>>]
    IN finish(registerQueue(processObj(<<>>, localizations), TRUE, st, locale, plugin),
              Put(lookup, formatLocale(locale.language[1], locale.countryCode), locale))

\* _registerLocale(locale, localizations, options) for a parsed locale:
\* [ok, st, lookup, supported] after the call
registerLocaleIn(st, lookup, sup, locale, localizations, plugin) ==
    LET finish(r, lookup2) ==
            IF r.ok /\ ~isSupported(lookup, JsObject)
            THEN [ok |-> r.ok, st |-> r.st, lookup |-> lookup2,
                  supported |-> <<ObjectKeys(lookup2)>>]
            ELSE [ok |-> r.ok, st |-> r.st, lookup |-> lookup, supported |-> sup]
    IN finish(registerQueue(processObj(<<>>, localizations), TRUE, st, locale, plugin),
              Put(lookup, formatLocale(locale.language[1], locale.countryCode), locale))

----------------------------------------------------------------------------
(* Resolution: Localization.prototype.g *)

\* variant of processKeyBlock that skips the default slot when a plugin is
\* prioritized
processKeyBlockPluginOnly(keyBlock, plugin) ==
    LET pluginsBlock == keyBlock.plugins[1]
        others == SelectSeq(pluginsBlock, LAMBDA e : plugin = <<>> \/ e.k # plugin[1])
    IN IF keyBlock.plugins # <<>> /\ plugin # <<>> /\ Has(pluginsBlock, plugin[1])
       THEN <<Get(pluginsBlock, plugin[1])>>
       ELSE IF keyBlock.plugins # <<>> /\ others # <<>>
       THEN <<others[1].v>>
       ELSE IF plugin # <<>> THEN <<>>
       ELSE keyBlock.default

\* variant of processKeyBlock that takes the last of the other plugins
processKeyBlockLastOther(keyBlock, plugin) ==
    LET pluginsBlock == keyBlock.plugins[1]
        others == SelectSeq(pluginsBlock, LAMBDA e : plugin = <<>> \/ e.k # plugin[1])
    IN IF keyBlock.plugins # <<>> /\ plugin # <<>> /\ Has(pluginsBlock, plugin[1])
       THEN <<Get(pluginsBlock, plugin[1])>>
       ELSE IF keyBlock.plugins # <<>> /\ others # <<>>
       THEN <<others[Len(others)].v>>
       ELSE keyBlock.default

\* processKeyBlock: the localization (value block) picked in a block, if any
processKeyBlock(keyBlock, plugin) ==
    LET pluginsBlock == keyBlock.plugins[1]
        others == SelectSeq(pluginsBlock, LAMBDA e : plugin = <<>> \/ e.k # plugin[1])
    IN IF keyBlock.plugins # <<>> /\ plugin # <<>> /\ Has(pluginsBlock, plugin[1])
       THEN <<Get(pluginsBlock, plugin[1])>>
       ELSE IF keyBlock.plugins # <<>> /\ others # <<>>
       THEN <<others[1].v>>
       ELSE keyBlock.default

\* variant of processLanguageBlock that looks at the language level first
processLanguageBlockLanguageFirst(keyBlock, locale, plugin) ==
    LET langKey == k(locale.language[1])
    IN IF ~Has(keyBlock, langKey) THEN <<>>
       ELSE LET langBlock == Get(keyBlock, langKey)
                countryKey == k(locale.countryCode[1])
                langResult == processKeyBlock(langBlock, plugin)
            IN IF langResult # <<>> THEN langResult
               ELSE IF locale.countryCode # <<>> /\ Has(langBlock.sub, countryKey)
               THEN processKeyBlock(Get(langBlock.sub, countryKey), plugin)
               ELSE <<>>

\* processLanguageBlock(keyBlock[langKey]) for the lookup locale
processLanguageBlock(keyBlock, locale, plugin) ==
    LET langKey == k(locale.language[1])
    IN IF ~Has(keyBlock, langKey) THEN <<>>
       ELSE LET langBlock == Get(keyBlock, langKey)
                countryKey == k(locale.countryCode[1])
                countryResult ==
                    IF locale.countryCode # <<>> /\ Has(langBlock.sub, countryKey)
                    THEN processKeyBlock(Get(langBlock.sub, countryKey), plugin)
                    ELSE <<>>
            IN IF countryResult # <<>> THEN countryResult
               ELSE processKeyBlock(langBlock, plugin)

\* variant of walk that never tries the default locale
walkOwnLocaleOnly(st, localeObj, key, plugin) ==
    [found |-> processLanguageBlock(Get(st, key), localeObj, plugin),
     fellBack |-> FALSE]

\* variant of walk that tries the default locale before the instance's locale
walkDefaultLocaleFirst(st, localeObj, key, plugin) ==
    LET keyBlock == Get(st, key)
        defaultLocale == parseLocaleStr(getDefaultLocale)
        result == processLanguageBlock(keyBlock, defaultLocale, plugin)
    IN IF result # <<>> THEN [found |-> result, fellBack |-> FALSE]
       ELSE [found |-> processLanguageBlock(keyBlock, localeObj, plugin),
             fellBack |-> TRUE]

\* the tree walk of g for a key of storage: the localization found, if any,
\* and whether the default locale was tried
walk(st, localeObj, key, plugin) ==
    LET keyBlock == Get(st, key)
        result == processLanguageBlock(keyBlock, localeObj, plugin)
        defaultLocale == parseLocaleStr(getDefaultLocale)
    IN IF result # <<>> THEN [found |-> result, fellBack |-> FALSE]
       ELSE IF defaultLocale.language # localeObj.language
               \/ defaultLocale.countryCode # localeObj.countryCode
       THEN [found |-> processLanguageBlock(keyBlock, defaultLocale, plugin),
             fellBack |-> TRUE]
       ELSE [found |-> <<>>, fellBack |-> FALSE]

\* variant of processValue that returns the template as it is
processValueRaw(localization, params, defaultParamVal) == JsString(localization.value)

\* processValue without its cache write
processValue(localization, params, defaultParamVal) ==
    IF localization.isParameterized
    THEN JsString(replaceParameters(localization.value, params, defaultParamVal))
    ELSE JsString(localization.value)

\* variant of finalize that never substitutes the key
finalizeNoKey(result, key, defaultVal) == result

\* finalize(result)
finalize(result, key, defaultVal) ==
    IF isString(result) \/ defaultVal # JsUndefined THEN result ELSE JsString(key)

\* variant of g that reads the instance's cache before it looks for the key
\* in storage
gCacheFirst(st, self, key, options) ==
    LET plugin == IF options.plugin # <<>> THEN options.plugin ELSE self.activeTheme
    IN IF Has(self.cache, key)
       THEN [ret |-> finalize(processValue(Get(self.cache, key), options.params,
                                           options.defaultParamVal),
                              key, options.defaultVal),
             cache |-> self.cache]
       ELSE IF ~Has(st, key)
       THEN [ret |-> finalize(options.defaultVal, key, options.defaultVal),
             cache |-> self.cache]
       ELSE LET w == walk(st, self.localeObj, key, plugin)
            IN IF w.found # <<>>
               THEN [ret |-> finalize(processValue(w.found[1], options.params,
                                                   options.defaultParamVal),
                                      key, options.defaultVal),
                     cache |-> Put(self.cache, key, w.found[1])]
               ELSE [ret |-> finalize(IF w.fellBack THEN JsNull ELSE options.defaultVal,
                                      key, options.defaultVal),
                     cache |-> self.cache]

\* variant of g whose cache write drops the other entries of the cache
gFreshCache(st, self, key, options) ==
    LET plugin == IF options.plugin # <<>> THEN options.plugin ELSE self.activeTheme
    IN IF ~Has(st, key)
       THEN [ret |-> finalize(options.defaultVal, key, options.defaultVal),
             cache |-> self.cache]
       ELSE IF Has(self.cache, key)
       THEN [ret |-> finalize(processValue(Get(self.cache, key), options.params,
                                           options.defaultParamVal),
                              key, options.defaultVal),
             cache |-> self.cache]
       ELSE LET w == walk(st, self.localeObj, key, plugin)
            IN IF w.found # <<>>
               THEN [ret |-> finalize(processValue(w.found[1], options.params,
                                                   options.defaultParamVal),
                                      key, options.defaultVal),
                     cache |-> Put(<<>>, key, w.found[1])]
               ELSE [ret |-> finalize(IF w.fellBack THEN JsNull ELSE options.defaultVal,
                                      key, options.defaultVal),
                     cache |-> self.cache]

\* g(key, options) on an instance: [ret |-> the value returned,
\* cache |-> the instance's cache after the call]
\* options: [plugin, params, defaultVal, defaultParamVal]
g(st, self, key, options) ==
    LET plugin == IF options.plugin # <<>> THEN options.plugin ELSE self.activeTheme
    IN IF ~Has(st, key)
       THEN [ret |-> finalize(options.defaultVal, key, options.defaultVal),
             cache |-> self.cache]
       ELSE IF Has(self.cache, key)
       THEN [ret |-> finalize(processValue(Get(self.cache, key), options.params,
                                           options.defaultParamVal),
                              key, options.defaultVal),
             cache |-> self.cache]
       ELSE LET w == walk(st, self.localeObj, key, plugin)
            IN IF w.found # <<>>
               THEN [ret |-> finalize(processValue(w.found[1], options.params,
                                                   options.defaultParamVal),
                                      key, options.defaultVal),
                     cache |-> Put(self.cache, key, w.found[1])]
               ELSE [ret |-> finalize(IF w.fellBack THEN JsNull ELSE options.defaultVal,
                                      key, options.defaultVal),
                     cache |-> self.cache]

----------------------------------------------------------------------------
(* Inputs of the calls *)

EnUS == <<"e", "n", "-", "U", "S">>
En == <<"e", "n">>
Fr == <<"f", "r">>
LocaleStrs == {EnUS, En, Fr}

KeyK == <<"k">>
KeyM == <<"m">>
Keys == {KeyK, KeyM}

ValV == <<"v">>
ValP == <<"{", "p", "}">>
Values == {ValV, ValP}

Plugins == {"pa", "pb"}
NoPlugin == <<>>
PluginOpts == {NoPlugin} \cup { <<p>> : p \in Plugins }
\* plugin hints of g: "pz" never registers anything
Hints == {NoPlugin, <<"pb">>, <<"pz">>}
\* the plugin of a bulk registration or of an unregistration
ScopeOpts == {NoPlugin, <<"pa">>}
\* the locale and the active theme of an instance
InstConfigs == { <<EnUS, NoPlugin>>, <<EnUS, <<"pa">>>>, <<En, NoPlugin>>, <<Fr, NoPlugin>> }

ParamSets == { <<>>, <<[k |-> <<"p">>, v |-> <<"x">>]>> }

GOpt(plugin, params, defaultVal) ==
    [plugin |-> plugin, params |-> params, defaultVal |-> defaultVal,
     defaultParamVal |-> <<>>]
GOptions ==
    { GOpt(h, <<>>, JsUndefined) : h \in Hints }
    \cup { GOpt(NoPlugin, ps, JsUndefined) : ps \in ParamSets }
    \cup { GOpt(h, <<>>, JsString(<<"d">>)) : h \in {NoPlugin, <<"pz">>} }
    \cup { [GOpt(NoPlugin, <<>>, JsUndefined) EXCEPT !.defaultParamVal = <<<<"z">>>>] }

\* localization objects given to the bulk registration
Localizations ==
    { <<Leaf(KeyK, ValV)>>,
      <<Node(KeyK, <<Leaf(KeyM, ValP)>>), Leaf(KeyM, ValV)>>,
      <<Other(KeyK), Leaf(KeyM, ValV)>>,
      <<>> }

\* locale files found at startup: [path, loads, t, obj], t the type of the
\* value the file exports and obj that value when it is an object
File(path, loads, obj) == [path |-> path, loads |-> loads, t |-> "object", obj |-> obj]
PathEnUS == <<"/", "l", "/">> \o EnUS \o JS_EXT
PathFr == <<"/", "l", "/">> \o Fr \o JS_EXT
FileLists ==
    { <<File(PathEnUS, TRUE, <<Leaf(KeyK, ValV)>>)>>,
      <<File(PathFr, FALSE, <<>>), File(PathEnUS, TRUE, <<Leaf(KeyK, ValP), Leaf(KeyM, ValV)>>)>>,
      <<File(PathFr, TRUE, <<Other(KeyK)>>), File(PathEnUS, TRUE, <<Leaf(KeyM, ValV)>>)>> }

\* the calls of g: [key, options]
GCalls ==
    { <<KeyK, o>> : o \in GOptions } \cup { <<KeyM, GOpt(NoPlugin, <<>>, JsUndefined)>> }

Insts == {"i1"}

----------------------------------------------------------------------------
(* State *)

NoInstance ==
    [alive |-> FALSE, language |-> <<>>, localeObj |-> parseLocaleStr(<<>>),
     cache |-> <<>>, activeTheme |-> <<>>]

\* the arguments of a call as JavaScript values of any type
NoArgs ==
    [public |-> FALSE, locale |-> JsUndefined, key |-> JsUndefined,
     value |-> JsUndefined, localizations |-> JsUndefined, options |-> JsUndefined]

\* the record of the last call: its name, its arguments, what it returned
NoCall ==
    [op |-> "none", self |-> "", locale |-> <<>>, key |-> <<>>, value |-> <<>>,
     plugin |-> <<>>, params |-> <<>>, defaultVal |-> JsUndefined,
     defaultParamVal |-> <<>>,
     localizations |-> <<>>, files |-> <<>>, form |-> JsUndefined,
     package |-> <<>>, parsed |-> parseLocaleStr(<<>>), args |-> NoArgs,
     cb |-> 0, hit |-> FALSE, ret |-> JsUndefined]

Init ==
    /\ storage = <<>>
    /\ supportedLookup = <<>>
    /\ supported = <<>>
    /\ inst = [i \in Insts |-> NoInstance]
    /\ loading = FALSE
    /\ ops = 0
    /\ last = NoCall

----------------------------------------------------------------------------
(* Operations *)

\* new Localization(request, options): the locale is what Localization.best
\* picked for the request
NewLocalization(i, language, activeTheme) ==
    /\ inst' = [inst EXCEPT ![i] =
                  [alive |-> TRUE, language |-> language,
                   localeObj |-> parseLocaleStr(language),
                   cache |-> <<>>, activeTheme |-> activeTheme]]
    /\ last' = [NoCall EXCEPT !.op = "new", !.self = i, !.locale = language,
                              !.plugin = activeTheme]
    /\ UNCHANGED <<storage, supportedLookup, supported, loading, ops>>

\* ls.g(key, options)
G(i, key, options) ==
    /\ inst[i].alive
    /\ LET r == g(storage, inst[i], key, options)
       IN /\ inst' = [inst EXCEPT ![i].cache = r.cache]
          /\ last' = [NoCall EXCEPT !.op = "g", !.self = i,
                                    !.locale = inst[i].language, !.key = key,
                                    !.plugin = options.plugin,
                                    !.params = options.params,
                                    !.defaultVal = options.defaultVal,
                                    !.defaultParamVal = options.defaultParamVal,
                                    !.hit = Has(storage, key) /\ Has(inst[i].cache, key),
                                    !.ret = r.ret]
    /\ UNCHANGED <<storage, supportedLookup, supported, loading, ops>>

\* Localization._registerLocalization(locale, key, value, {plugin})
RegisterLocalization(locale, key, value, plugin) ==
    /\ ops < MaxOps
    /\ ops' = ops + 1
    /\ LET p == parseLocale(locale)
       IN /\ storage' = IF p.ok
                        THEN registerLocalizationIn(storage, p.obj, key, value, plugin)
                        ELSE storage
          /\ last' = [NoCall EXCEPT !.op = "registerLocalization", !.locale = locale,
                                    !.key = key, !.value = value, !.plugin = plugin,
                                    !.ret = IF p.ok THEN JsBool(TRUE) ELSE JsThrow]
    /\ UNCHANGED <<supportedLookup, supported, inst, loading>>

\* Localization._registerLocale(locale, localizations, {plugin})
RegisterLocale(locale, localizations, plugin) ==
    /\ ops < MaxOps
    /\ ops' = ops + 1
    /\ LET p == parseLocale(locale)
           r == registerLocaleIn(storage, supportedLookup, supported, p.obj,
                                 localizations, plugin)
       IN IF p.ok
          THEN /\ storage' = r.st
               /\ supportedLookup' = r.lookup
               /\ supported' = r.supported
               /\ last' = [NoCall EXCEPT !.op = "registerLocale", !.locale = locale,
                                         !.plugin = plugin,
                                         !.localizations = localizations,
                                         !.ret = JsBool(r.ok)]
          ELSE /\ UNCHANGED <<storage, supportedLookup, supported>>
               /\ last' = [NoCall EXCEPT !.op = "registerLocale", !.locale = locale,
                                         !.plugin = plugin,
                                         !.localizations = localizations,
                                         !.ret = JsThrow]
    /\ UNCHANGED <<inst, loading>>

\* Localization.unregisterLocalization(locale, key, {plugin})
UnregisterLocalization(locale, key, plugin) ==
    /\ ops < MaxOps
    /\ ops' = ops + 1
    /\ LET p == parseLocale(locale)
           r == unregisterLocalizationIn(storage, p.obj, key, plugin)
       IN /\ storage' = IF p.ok THEN r.st ELSE storage
          /\ last' = [NoCall EXCEPT !.op = "unregisterLocalization",
                                    !.locale = locale, !.key = key, !.plugin = plugin,
                                    !.ret = IF p.ok THEN r.ret ELSE JsThrow]
    /\ UNCHANGED <<supportedLookup, supported, inst, loading>>

\* Localization.unregisterLocale(locale, {plugin})
UnregisterLocale(locale, plugin) ==
    /\ ops < MaxOps
    /\ ops' = ops + 1
    /\ LET p == parseLocale(locale)
           r == unregisterKeys(ObjectKeys(storage), 1, 0, storage, p.obj, plugin)
           lookup2 == Del(supportedLookup,
                          formatLocale(p.obj.language[1], p.obj.countryCode))
       IN IF ~p.ok
          THEN /\ UNCHANGED <<storage, supportedLookup, supported>>
               /\ last' = [NoCall EXCEPT !.op = "unregisterLocale", !.locale = locale,
                                         !.plugin = plugin, !.ret = JsThrow]
          ELSE IF r.thrown
          THEN /\ storage' = r.st
               /\ UNCHANGED <<supportedLookup, supported>>
               /\ last' = [NoCall EXCEPT !.op = "unregisterLocale", !.locale = locale,
                                         !.plugin = plugin, !.ret = JsThrow]
          ELSE /\ storage' = r.st
               /\ supportedLookup' = lookup2
               /\ supported' = <<ObjectKeys(lookup2)>>
               /\ last' = [NoCall EXCEPT !.op = "unregisterLocale", !.locale = locale,
                                         !.plugin = plugin, !.ret = JsBool(r.n > 0)]
    /\ UNCHANGED <<inst, loading>>

\* the forEach of init over the files found, from file i on:
\* [ok |-> compoundedResult, thrown |-> _registerLocale threw, st, lookup,
\*  supported]
RECURSIVE loadFiles(_, _, _, _, _, _)
loadFiles(files, i, compoundedResult, st, lookup, sup) ==
    IF i > Len(files)
    THEN [ok |-> compoundedResult, thrown |-> FALSE, st |-> st, lookup |-> lookup,
          supported |-> sup]
    ELSE IF ~files[i].loads \/ ~compoundedResult
    THEN \* require(file) threw, or compoundedResult && ... short-circuits
         loadFiles(files, i + 1, compoundedResult, st, lookup, sup)
    ELSE IF parseLocaleStr(files[i].path).language = <<>> \/ files[i].t # "object"
    THEN \* _registerLocale throws: parseLocale finds no language, or the
         \* localizations are not an object
         [ok |-> compoundedResult, thrown |-> TRUE, st |-> st, lookup |-> lookup,
          supported |-> sup]
    ELSE LET rest(r) == loadFiles(files, i + 1, r.ok, r.st, r.lookup, r.supported)
         IN rest(registerLocaleIn(st, lookup, sup, parseLocaleStr(files[i].path),
                                  files[i].obj, NoPlugin))

\* Localization.init(cb), up to the request for the file list
InitStart ==
    /\ ops < MaxOps
    /\ ~loading
    /\ ops' = ops + 1
    /\ storage' = <<>>
    /\ loading' = TRUE
    /\ last' = [NoCall EXCEPT !.op = "init"]
    /\ UNCHANGED <<supportedLookup, supported, inst>>

\* the callback of FileUtils.getFiles: every file is registered, then
\* cb(null, result); when _registerLocale throws, the promise is rejected and
\* cb is not called
InitLoaded(files) ==
    /\ loading
    /\ loading' = FALSE
    /\ \E r \in {loadFiles(files, 1, TRUE, storage, supportedLookup, supported)} :
          /\ storage' = r.st
          /\ supportedLookup' = r.lookup
          /\ supported' = r.supported
          /\ last' = IF r.thrown
                     THEN [NoCall EXCEPT !.op = "init.rejected", !.files = files,
                                         !.ret = JsThrow]
                     ELSE [NoCall EXCEPT !.op = "init.cb", !.files = files,
                                         !.cb = 1, !.ret = JsBool(r.ok)]
    /\ UNCHANGED <<inst, ops>>

\* FileUtils.getFiles rejects: catch(cb) calls cb(err), then the then-callback
\* runs with files undefined and throws at files.forEach
InitListFailed ==
    /\ loading
    /\ loading' = FALSE
    /\ last' = [NoCall EXCEPT !.op = "init.failed", !.cb = 1, !.ret = JsThrow]
    /\ UNCHANGED <<storage, supportedLookup, supported, inst, ops>>

\* key.split(Localization.KEY_SEP)
RECURSIVE splitKey(_)
splitKey(s) ==
    IF firstPosFrom(s, KEY_SEP, 1) = 0 THEN <<s>>
    ELSE <<SubSeq(s, 1, firstPosFrom(s, KEY_SEP, 1) - 1)>>
         \o splitKey(SubSeq(s, firstPosFrom(s, KEY_SEP, 1) + 1, Len(s)))

\* an object of the package: a map of names to values, a value being a value
\* g returned or [t |-> "object", v |-> the nested map]
PackageNode(obj) == [t |-> "object", v |-> obj]

\* the walk of getLocalizationPackage from parts[i] on in block:
\* [thrown |-> a property was assigned on a string, block |-> the block after]
RECURSIVE setAt(_, _, _, _)
setAt(block, parts, i, result) ==
    IF i = Len(parts)
    THEN [thrown |-> FALSE, block |-> Put(block, parts[i], result)]
    ELSE LET child == IF ~Has(block, parts[i])
                         \/ Get(block, parts[i]).t \in {"null", "undefined"}
                      THEN PackageNode(<<>>) ELSE Get(block, parts[i])
             descend(sub) ==
                 [thrown |-> sub.thrown,
                  block |-> Put(block, parts[i], PackageNode(sub.block))]
         IN IF ~isObject(child)
            THEN \* block becomes a string: the next assignment throws (strict mode)
                 [thrown |-> TRUE, block |-> block]
            ELSE descend(setAt(child.v, parts, i + 1, result))

\* the forEach of getLocalizationPackage over Object.keys(storage), from key i
\* on, with the instance ls: [thrown, obj |-> packageObj]
RECURSIVE packageKeys(_, _, _, _, _, _)
packageKeys(st, keys, i, ls, options, packageObj) ==
    IF i > Len(keys) THEN [thrown |-> FALSE, obj |-> packageObj]
    ELSE LET place(r) ==
                 LET rest(b) ==
                         IF b.thrown THEN [thrown |-> TRUE, obj |-> b.block]
                         ELSE packageKeys(st, keys, i + 1,
                                          [ls EXCEPT !.cache = r.cache], options,
                                          b.block)
                 IN rest(setAt(packageObj, splitKey(keys[i]), 1, r.ret))
         IN place(g(st, ls, keys[i], options))

\* options given to getLocalizationPackage
PackageOptions ==
    { GOpt(NoPlugin, <<>>, JsUndefined),
      GOpt(<<"pa">>, <<[k |-> <<"p">>, v |-> <<"x">>]>>, JsString(<<"d">>)) }

\* the instance getLocalizationPackage constructs: language is the locale
\* Localization.best negotiated for the locale string
PackageInstance(language) ==
    [alive |-> TRUE, language |-> language, localeObj |-> parseLocaleStr(language),
     cache |-> <<>>, activeTheme |-> <<>>]

\* Localization.getLocalizationPackage(locale, options) for a non-empty locale
\* string
GetLocalizationPackage(language, options) ==
    /\ \E r \in {packageKeys(storage, ObjectKeys(storage), 1,
                              PackageInstance(language), options, <<>>)} :
          last' = [NoCall EXCEPT !.op = "getLocalizationPackage",
                                 !.locale = language, !.plugin = options.plugin,
                                 !.params = options.params,
                                 !.defaultVal = options.defaultVal,
                                 !.defaultParamVal = options.defaultParamVal,
                                 !.package = IF r.thrown THEN <<>> ELSE r.obj,
                                 !.ret = IF r.thrown THEN JsThrow ELSE JsObject]
    /\ UNCHANGED <<storage, supportedLookup, supported, inst, loading, ops>>

\* parseLocale on a string or on a structured locale: a structured locale
\* with a string language is returned as it is
JsLocale(language, countryCode) ==
    [t |-> "object", v |-> [language |-> language, countryCode |-> countryCode]]
parseLocaleOf(locale) ==
    IF isString(locale) THEN parseLocale(locale.v)
    ELSE IF isObject(locale)
    THEN [ok |-> locale.v.language # <<>>, obj |-> locale.v]
    ELSE [ok |-> FALSE, obj |-> parseLocaleStr(<<>>)]

\* the forms of a locale given to the registry
LocaleForms ==
    { JsString(EnUS), JsString(<<"E", "N", "-", "u", "s">>),
      JsLocale(<<En>>, <<<<"U", "S">>>>),
      JsLocale(<<<<"E", "N">>>>, <<<<"u", "s">>>>),
      JsLocale(<<<<"E", "n">>>>, <<>>) }

\* Localization._registerLocalization(locale, key, value, {plugin}) with the
\* locale in one of its forms
RegisterLocalizationForm(form, key, value, plugin) ==
    /\ ops < MaxOps
    /\ ops' = ops + 1
    /\ \E p \in {parseLocaleOf(form)} :
          /\ storage' = IF p.ok
                        THEN registerLocalizationIn(storage, p.obj, key, value, plugin)
                        ELSE storage
          /\ last' = [NoCall EXCEPT !.op = "registerLocalization", !.form = form,
                                    !.key = key, !.value = value, !.plugin = plugin,
                                    !.ret = IF p.ok THEN JsBool(TRUE) ELSE JsThrow]
    /\ UNCHANGED <<supportedLookup, supported, inst, loading>>

\* Localization.unregisterLocalization(locale, key, {plugin}) with the locale
\* in one of its forms
UnregisterLocalizationForm(form, key, plugin) ==
    /\ ops < MaxOps
    /\ ops' = ops + 1
    /\ \E p \in {parseLocaleOf(form)} :
       \E r \in {unregisterLocalizationIn(storage, p.obj, key, plugin)} :
          /\ storage' = IF p.ok THEN r.st ELSE storage
          /\ last' = [NoCall EXCEPT !.op = "unregisterLocalization", !.form = form,
                                    !.key = key, !.plugin = plugin,
                                    !.ret = IF p.ok THEN r.ret ELSE JsThrow]
    /\ UNCHANGED <<supportedLookup, supported, inst, loading>>

Next ==
    \/ \E i \in Insts, c \in InstConfigs : NewLocalization(i, c[1], c[2])
    \/ \E i \in Insts, c \in GCalls : G(i, c[1], c[2])
    \/ \E l \in LocaleStrs, key \in Keys, v \in Values, p \in PluginOpts :
          RegisterLocalization(l, key, v, p)
    \/ \E l \in LocaleStrs, m \in Localizations, p \in ScopeOpts : RegisterLocale(l, m, p)
    \/ \E l \in LocaleStrs, key \in Keys, p \in ScopeOpts :
          UnregisterLocalization(l, key, p)
    \/ \E l \in LocaleStrs, p \in ScopeOpts : UnregisterLocale(l, p)
    \/ InitStart
    \/ \E f \in FileLists : InitLoaded(f)

Spec == Init /\ [][Next]_vars

\* the registry called with locales in every form
NextForms ==
    \/ \E i \in Insts, c \in InstConfigs : NewLocalization(i, c[1], c[2])
    \/ \E i \in Insts, c \in GCalls : G(i, c[1], c[2])
    \/ \E f \in LocaleForms, v \in Values, p \in ScopeOpts :
          RegisterLocalizationForm(f, KeyK, v, p)
    \/ \E f \in LocaleForms, p \in ScopeOpts : UnregisterLocalizationForm(f, KeyK, p)

SpecForms == Init /\ [][NextForms]_vars

\* registrations and the export of the package
NextPackage ==
    \/ \E l \in LocaleStrs, key \in Keys, v \in Values, p \in ScopeOpts :
          RegisterLocalization(l, key, v, p)
    \/ \E l \in LocaleStrs, m \in Localizations, p \in ScopeOpts : RegisterLocale(l, m, p)
    \/ \E l \in LocaleStrs, o \in PackageOptions : GetLocalizationPackage(l, o)

SpecPackage == Init /\ [][NextPackage]_vars

----------------------------------------------------------------------------
(* Vocabulary of the properties *)

\* the instance of the last call and the locale it resolves for
Self == inst[last.self]
DefaultLocaleObj == parseLocaleStr(getDefaultLocale)

\* the language block and the country block of a key for a locale, if present
LangTier(st, key, loc) ==
    IF Has(st, key) /\ Has(Get(st, key), k(loc.language[1]))
    THEN <<Get(Get(st, key), k(loc.language[1]))>> ELSE <<>>
CountryTier(st, key, loc) ==
    IF loc.countryCode # <<>> /\ LangTier(st, key, loc) # <<>>
       /\ Has(LangTier(st, key, loc)[1].sub, k(loc.countryCode[1]))
    THEN <<Get(LangTier(st, key, loc)[1].sub, k(loc.countryCode[1]))>> ELSE <<>>
\* the block a registration for the locale writes to
OwnTier(st, key, loc) ==
    IF loc.countryCode # <<>> THEN CountryTier(st, key, loc) ELSE LangTier(st, key, loc)

\* the localizations a tier holds
PluginValues(tier) ==
    IF tier = <<>> \/ tier[1].plugins = <<>> THEN {}
    ELSE { tier[1].plugins[1][i].v : i \in 1..Len(tier[1].plugins[1]) }
DefaultValues(tier) ==
    IF tier = <<>> \/ tier[1].default = <<>> THEN {} ELSE {tier[1].default[1]}
TierValues(tier) == PluginValues(tier) \cup DefaultValues(tier)

\* the localization in the slot of (locale, key, plugin), if registered
SlotValues(st, key, loc, plugin) ==
    LET tier == OwnTier(st, key, loc)
    IN IF plugin = <<>> THEN DefaultValues(tier)
       ELSE IF tier = <<>> \/ tier[1].plugins = <<>> \/ ~Has(tier[1].plugins[1], plugin[1])
       THEN {}
       ELSE {Get(tier[1].plugins[1], plugin[1])}

SlotValuesOf(tier, plugin) ==
    IF plugin = <<>> \/ tier = <<>> \/ tier[1].plugins = <<>>
       \/ ~Has(tier[1].plugins[1], plugin[1])
    THEN {} ELSE {Get(tier[1].plugins[1], plugin[1])}

\* the strings g may return for a set of localizations under the call's params
Rendered(values) ==
    { JsString(IF v.isParameterized
               THEN replaceParameters(v.value, last.params, last.defaultParamVal)
               ELSE v.value) :
      v \in values }

\* the plugin a call of g prioritizes
EffectivePlugin == IF last.plugin # <<>> THEN last.plugin ELSE Self.activeTheme

\* the values the plugin-then-default order allows in a tier
OrderedValues(tier, plugin) ==
    IF SlotValuesOf(tier, plugin) # {} THEN SlotValuesOf(tier, plugin)
    ELSE IF PluginValues(tier) # {} THEN PluginValues(tier)
    ELSE DefaultValues(tier)

\* no tier of the locale holds a value for the key
NoValueFor(st, key, loc) ==
    TierValues(CountryTier(st, key, loc)) \cup TierValues(LangTier(st, key, loc)) = {}

IsG == last.op = "g"

----------------------------------------------------------------------------
(* C1..C7: resolution *)

\* C1: whenever g is called with options.plugin naming a plugin whose slot for
\* (the instance's locale, the key) is registered, it returns that slot's
\* value, interpolated, whatever calls the instance made before.  Stated for
\* the second of two consecutive calls of one instance for one key, the first
\* of which walked the tree.
MatchingPluginCase ==
    /\ IsG /\ last.plugin # <<>>
    /\ SlotValues(storage, last.key, Self.localeObj, last.plugin) # {}
MatchingPluginReturned ==
    last.ret \in Rendered(SlotValues(storage, last.key, Self.localeObj, last.plugin))
C1_MatchingPluginAlwaysReturned ==
    [][ (/\ IsG /\ Has(storage, last.key) /\ ~last.hit
         /\ last'.self = last.self /\ last'.key = last.key
         /\ MatchingPluginCase')
        => MatchingPluginReturned' ]_vars

\* C2: whenever the key holds a value in the country block of the instance's
\* locale and a value at the language level, g returns a country-level value.
C2_CountryBeforeLanguage ==
    (IsG /\ TierValues(CountryTier(storage, last.key, Self.localeObj)) # {}
         /\ TierValues(LangTier(storage, last.key, Self.localeObj)) # {})
    => last.ret \in Rendered(TierValues(CountryTier(storage, last.key, Self.localeObj)))

\* C2 as amended: the same, for a call that does not find the key in the
\* instance's cache.
C2_CountryBeforeLanguageOnMiss ==
    (IsG /\ ~last.hit
         /\ TierValues(CountryTier(storage, last.key, Self.localeObj)) # {}
         /\ TierValues(LangTier(storage, last.key, Self.localeObj)) # {})
    => last.ret \in Rendered(OrderedValues(CountryTier(storage, last.key, Self.localeObj),
                                           EffectivePlugin))

C2_Witness ==
    /\ IsG /\ ~last.hit
    /\ PluginValues(CountryTier(storage, last.key, Self.localeObj)) # {}
    /\ DefaultValues(LangTier(storage, last.key, Self.localeObj)) # {}
    /\ TierValues(CountryTier(storage, last.key, Self.localeObj))
         \cap TierValues(LangTier(storage, last.key, Self.localeObj)) = {}

\* the precondition of C3: the key is in storage with no value at a tier of the
\* instance's locale, which differs from the default locale, and with a value
\* at a tier of the default locale
FallsBackToDefault ==
    /\ IsG /\ Has(storage, last.key)
    /\ NoValueFor(storage, last.key, Self.localeObj)
    /\ Self.localeObj # DefaultLocaleObj
    /\ ~NoValueFor(storage, last.key, DefaultLocaleObj)

\* the value the country-then-language, plugin-then-default order picks for
\* the default locale
DefaultLocaleValues ==
    IF TierValues(CountryTier(storage, last.key, DefaultLocaleObj)) # {}
    THEN OrderedValues(CountryTier(storage, last.key, DefaultLocaleObj), EffectivePlugin)
    ELSE OrderedValues(LangTier(storage, last.key, DefaultLocaleObj), EffectivePlugin)

\* C3: under the precondition, g returns the default locale's value.
C3_DefaultLocaleFallback ==
    FallsBackToDefault => last.ret \in Rendered(DefaultLocaleValues)

\* C3 as amended: the same, for a call that does not find the key in the
\* instance's cache.
C3_DefaultLocaleFallbackOnMiss ==
    (FallsBackToDefault /\ ~last.hit) => last.ret \in Rendered(DefaultLocaleValues)

C3_Witness ==
    /\ FallsBackToDefault /\ ~last.hit
    /\ Self.localeObj.language = DefaultLocaleObj.language
    /\ last.ret \in Rendered(DefaultLocaleValues)

\* C4: for a key that is not in storage g returns options.defaultVal when it
\* is supplied and the key otherwise.
C4_UnregisteredKey ==
    (IsG /\ ~Has(storage, last.key))
    => last.ret = (IF last.defaultVal # JsUndefined THEN last.defaultVal
                   ELSE JsString(last.key))

C4_Witness ==
    /\ IsG /\ ~Has(storage, last.key) /\ Has(Self.cache, last.key)
    /\ last.defaultVal # JsUndefined /\ last.ret = last.defaultVal

\* C5: called without defaultVal, g returns a string, and it returns the key
\* when the key is in storage with no value at a tier of the instance's locale
\* or of the default locale.
C5_AlwaysAString ==
    (IsG /\ last.defaultVal = JsUndefined)
    => /\ isString(last.ret)
       /\ (Has(storage, last.key) /\ NoValueFor(storage, last.key, Self.localeObj)
             /\ NoValueFor(storage, last.key, DefaultLocaleObj))
          => last.ret = JsString(last.key)

\* C5 as amended: the key is returned when, in addition, the instance's cache
\* holds no entry for the key.
C5_AlwaysAStringOnMiss ==
    (IsG /\ last.defaultVal = JsUndefined)
    => /\ isString(last.ret)
       /\ (Has(storage, last.key) /\ ~last.hit
             /\ NoValueFor(storage, last.key, Self.localeObj)
             /\ NoValueFor(storage, last.key, DefaultLocaleObj))
          => last.ret = JsString(last.key)

C5_Witness ==
    /\ IsG /\ last.defaultVal = JsUndefined /\ ~last.hit
    /\ Has(storage, last.key)
    /\ NoValueFor(storage, last.key, Self.localeObj)
    /\ NoValueFor(storage, last.key, DefaultLocaleObj)
    /\ Self.localeObj # DefaultLocaleObj
    /\ last.ret = JsString(last.key)

\* C6: when the key is in storage with no value at a tier of the instance's
\* locale or of the default locale and options.defaultVal is supplied, g
\* returns options.defaultVal.
C6_DefaultValWhenNothingFound ==
    (IsG /\ last.defaultVal # JsUndefined /\ Has(storage, last.key)
         /\ NoValueFor(storage, last.key, Self.localeObj)
         /\ NoValueFor(storage, last.key, DefaultLocaleObj))
    => last.ret = last.defaultVal

\* C7: when the tiers of the instance's locale hold no plugin slot for the key
\* and hold a default slot, g returns that default value for every plugin hint.
OnlyDefaultSlot ==
    /\ IsG
    /\ PluginValues(CountryTier(storage, last.key, Self.localeObj)) = {}
    /\ PluginValues(LangTier(storage, last.key, Self.localeObj)) = {}
    /\ ~NoValueFor(storage, last.key, Self.localeObj)

OwnDefaultValues ==
    IF DefaultValues(CountryTier(storage, last.key, Self.localeObj)) # {}
    THEN DefaultValues(CountryTier(storage, last.key, Self.localeObj))
    ELSE DefaultValues(LangTier(storage, last.key, Self.localeObj))

C7_DefaultForAnyHint ==
    OnlyDefaultSlot => last.ret \in Rendered(OwnDefaultValues)

\* C7 as amended: the same, for a call that does not find the key in the
\* instance's cache.
C7_DefaultForAnyHintOnMiss ==
    (OnlyDefaultSlot /\ ~last.hit) => last.ret \in Rendered(OwnDefaultValues)

C7_Witness ==
    /\ OnlyDefaultSlot /\ ~last.hit /\ last.plugin = <<"pz">>
    /\ last.ret \in Rendered(OwnDefaultValues)

----------------------------------------------------------------------------
(* C8..C10: the registry *)

\* some key of storage holds a value registered for the locale
HoldsValueFor(st, locale) ==
    \E i \in 1..Len(st) : TierValues(OwnTier(st, st[i].k, parseLocaleStr(locale))) # {}

\* C8: a locale is supported if and only if some key holds a value for it.
C8_SupportedIffRegistered ==
    \A l \in LocaleStrs :
        isSupported(supportedLookup, JsString(l)) <=> HoldsValueFor(storage, l)

\* C9: unregistering the (locale, key, plugin) that was just registered leaves
\* no value in that slot, and leaves the locale unsupported when no key holds
\* a value for it any more.
C9_RegisterThenUnregister ==
    [][ (/\ last.op = "registerLocalization" /\ last.ret = JsBool(TRUE)
         /\ last'.op = "unregisterLocalization"
         /\ last'.locale = last.locale /\ last'.key = last.key
         /\ last'.plugin = last.plugin)
        => /\ SlotValues(storage', last.key, parseLocaleStr(last.locale), last.plugin) = {}
           /\ ~HoldsValueFor(storage', last.locale)
                => ~isSupported(supportedLookup', JsString(last.locale)) ]_vars

\* C10: every call of unregisterLocale returns, with the locale out of the
\* lookup and the negotiation list rebuilt from the lookup, and it returns true
\* if and only if it removed a value from storage.
C10_UnregisterLocaleCompletes ==
    [][ (last'.op = "unregisterLocale" /\ ops' # ops)
        => /\ last'.ret \in {JsBool(TRUE), JsBool(FALSE)}
           /\ ~isSupported(supportedLookup', JsString(last'.locale))
           /\ supported' = <<ObjectKeys(supportedLookup')>>
           /\ (last'.ret = JsBool(TRUE)) <=> (storage' # storage) ]_vars

----------------------------------------------------------------------------
(* C11..C13: bulk registration *)

\* the canonical string of a locale string
Canonical(locale) ==
    formatLocale(parseLocaleStr(locale).language[1], parseLocaleStr(locale).countryCode)

\* the leaves of a localizations object: [path, t, s], path the dotted key-path
RECURSIVE LeavesOf(_, _)
LeavesOf(prefix, obj) ==
    UNION { IF obj[i].t = "object"
            THEN LeavesOf(prefix \o obj[i].k \o <<KEY_SEP>>, obj[i].o)
            ELSE {[path |-> prefix \o obj[i].k, t |-> obj[i].t, s |-> obj[i].s]} :
            i \in 1..Len(obj) }

\* the step is a call of _registerLocale that returned
IsRegisterLocaleStep == last'.op = "registerLocale" /\ ops' # ops /\ last'.ret # JsThrow

\* the leaf holds a string and the slot of its key-path holds that string
LeafRegistered(st, lf, locale, plugin) ==
    /\ lf.t = "string"
    /\ SlotValues(st, lf.path, parseLocaleStr(locale), plugin) = {ValueBlock(lf.s)}

\* C11: a bulk registration that returns true leaves the locale supported and
\* in the negotiation list; one that returns false leaves the lookup and the
\* negotiation list as they were.
C11_BulkRegistrationAndSupport ==
    [][ IsRegisterLocaleStep
        => /\ last'.ret = JsBool(TRUE)
                => /\ isSupported(supportedLookup', JsString(Canonical(last'.locale)))
                   /\ supported' # <<>>
                   /\ \E i \in 1..Len(supported'[1]) :
                         supported'[1][i] = Canonical(last'.locale)
           /\ last'.ret = JsBool(FALSE)
                => UNCHANGED <<supportedLookup, supported>> ]_vars

C11_Witness ==
    /\ last.op = "registerLocale" /\ last.ret = JsBool(FALSE)
    /\ supportedLookup # <<>>
    /\ ~isSupported(supportedLookup, JsString(Canonical(last.locale)))

\* C12: a bulk registration registers every leaf string of the map under its
\* dotted key-path, whether or not other leaves of the map are invalid.
C12_EveryLeafStringRegistered ==
    [][ IsRegisterLocaleStep
        => \A lf \in LeavesOf(<<>>, last'.localizations) :
              lf.t = "string"
                => LeafRegistered(storage', lf, last'.locale, last'.plugin) ]_vars

\* C13: a bulk registration returns true if and only if every leaf of the map
\* is a string that was registered, and returns false when some leaf is
\* neither an object nor a string.
C13_BulkReturnsTrueIffAllLeaves ==
    [][ IsRegisterLocaleStep
        => /\ (last'.ret = JsBool(TRUE))
                <=> \A lf \in LeavesOf(<<>>, last'.localizations) :
                       LeafRegistered(storage', lf, last'.locale, last'.plugin)
           /\ (\E lf \in LeavesOf(<<>>, last'.localizations) : lf.t # "string")
                => last'.ret = JsBool(FALSE) ]_vars

C13_Witness ==
    /\ last.op = "registerLocale" /\ last.ret = JsBool(FALSE)
    /\ \E lf \in LeavesOf(<<>>, last.localizations) : lf.t = "string"
    /\ \E lf \in LeavesOf(<<>>, last.localizations) : lf.t # "string"

----------------------------------------------------------------------------
(* C14..C16: single-key removal and registration *)

IsUnregisterLocalizationStep == last'.op = "unregisterLocalization" /\ ops' # ops
IsRegisterLocalizationStep ==
    last'.op = "registerLocalization" /\ ops' # ops /\ last'.ret # JsThrow

\* a node on the way to the slot of (locale, key) is absent
IntermediateAbsent(st, key, loc) ==
    \/ ~Has(st, key)
    \/ LangTier(st, key, loc) = <<>>
    \/ loc.countryCode # <<>> /\ CountryTier(st, key, loc) = <<>>

\* every slot but the one of (locale, key, plugin) holds in st2 what it holds
\* in st1
OtherSlotsUnchanged(st1, st2, locale, key, plugin) ==
    \A i \in 1..Len(st2) : \A l \in LocaleStrs : \A p \in PluginOpts :
        <<st2[i].k, Canonical(l), p>> # <<key, Canonical(locale), plugin>>
          => SlotValues(st1, st2[i].k, parseLocaleStr(l), p)
               = SlotValues(st2, st2[i].k, parseLocaleStr(l), p)

\* C14: unregisterLocalization returns false and leaves storage as it was when
\* a node on the way to the slot is absent.
C14_AbsentNodeIsNoOp ==
    [][ (/\ IsUnregisterLocalizationStep
         /\ IntermediateAbsent(storage, last'.key, parseLocaleStr(last'.locale)))
        => (last'.ret = JsBool(FALSE) /\ storage' = storage) ]_vars

\* C15: unregisterLocalization with a plugin returns true if and only if the
\* plugin's slot existed at the level of the locale; afterwards that slot is
\* absent and every other slot is unchanged.
C15_PluginSlotRemoved ==
    [][ (IsUnregisterLocalizationStep /\ last'.plugin # <<>>)
        => /\ (last'.ret = JsBool(TRUE))
                <=> SlotValues(storage, last'.key, parseLocaleStr(last'.locale),
                               last'.plugin) # {}
           /\ SlotValues(storage', last'.key, parseLocaleStr(last'.locale),
                         last'.plugin) = {}
           /\ OtherSlotsUnchanged(storage, storage', last'.locale, last'.key,
                                  last'.plugin) ]_vars

\* C16: _registerLocalization returns true, leaves the value in the slot of
\* (locale, key, plugin), and leaves every other slot, the lookup and the
\* negotiation list unchanged.
C16_ExactlyOneSlotWritten ==
    [][ IsRegisterLocalizationStep
        => /\ last'.ret = JsBool(TRUE)
           /\ SlotValues(storage', last'.key, parseLocaleStr(last'.locale),
                         last'.plugin) = {ValueBlock(last'.value)}
           /\ OtherSlotsUnchanged(storage, storage', last'.locale, last'.key,
                                  last'.plugin)
           /\ UNCHANGED <<supportedLookup, supported>> ]_vars

C16_Witness ==
    /\ last.op = "registerLocalization" /\ last.ret = JsBool(TRUE)
    /\ last.plugin # <<>>
    /\ DefaultValues(OwnTier(storage, last.key, parseLocaleStr(last.locale))) # {}
    /\ SlotValues(storage, last.key, parseLocaleStr(last.locale), last.plugin)
         = {ValueBlock(last.value)}

----------------------------------------------------------------------------
(* C17: the forms of a locale *)

\* the canonical locale object of a locale in one of its forms
CanonicalObj(form) ==
    parseLocaleStr(formatLocale(parseLocaleOf(form).obj.language[1],
                                parseLocaleOf(form).obj.countryCode))

\* C17: a value registered with a locale in any form is in the slot of the
\* canonical locale, is what g returns next for the key on an instance of the
\* canonical locale that holds no cache entry for it, and a removal that
\* returns true with a locale in any form leaves the default slot of the
\* canonical locale empty.
C17_LocaleFormsShareSlot ==
    [][ /\ (last'.op = "registerLocalization" /\ ops' # ops /\ last'.ret # JsThrow)
           => SlotValues(storage', last'.key, CanonicalObj(last'.form), last'.plugin)
                = {ValueBlock(last'.value)}
        /\ (/\ last.op = "registerLocalization" /\ last.ret = JsBool(TRUE)
            /\ last'.op = "g" /\ last'.key = last.key /\ ~last'.hit
            /\ inst'[last'.self].localeObj = CanonicalObj(last.form))
           => last'.ret \in
                { JsString(IF v.isParameterized
                           THEN replaceParameters(v.value, last'.params,
                                                  last'.defaultParamVal)
                           ELSE v.value) :
                  v \in TierValues(CountryTier(storage, last.key, CanonicalObj(last.form)))
                        \cup TierValues(LangTier(storage, last.key,
                                                 CanonicalObj(last.form))) }
        /\ (/\ last'.op = "unregisterLocalization" /\ ops' # ops
            /\ last'.ret = JsBool(TRUE) /\ last'.plugin = <<>>)
           => DefaultValues(OwnTier(storage', last'.key, CanonicalObj(last'.form)))
                = {} ]_vars

----------------------------------------------------------------------------
(* C18: the cache and the parameters *)

\* C18: whenever g returns with an entry for the key in the instance's cache,
\* the entry is the localization as registered and the value returned is its
\* template interpolated with the params and defaultParamVal of this call.
C18_CacheHoldsTemplate ==
    (IsG /\ Has(storage, last.key) /\ Has(Self.cache, last.key))
    => /\ Get(Self.cache, last.key) = ValueBlock(Get(Self.cache, last.key).value)
       /\ last.ret =
            JsString(IF containsParameters(Get(Self.cache, last.key).value)
                     THEN replaceParameters(Get(Self.cache, last.key).value,
                                            last.params, last.defaultParamVal)
                     ELSE Get(Self.cache, last.key).value)

C18_Witness ==
    /\ IsG /\ last.hit /\ Has(storage, last.key)
    /\ Get(Self.cache, last.key).value = ValP
    /\ last.params # <<>>
    /\ last.ret = JsString(<<"x">>)

----------------------------------------------------------------------------
(* C19: the package *)

\* the leaves of a package object: [path |-> dotted position, v |-> value]
RECURSIVE PackageLeaves(_, _)
PackageLeaves(prefix, obj) ==
    UNION { IF obj[i].v.t = "object"
            THEN PackageLeaves(prefix \o obj[i].k \o <<KEY_SEP>>, obj[i].v.v)
            ELSE {[path |-> prefix \o obj[i].k, v |-> obj[i].v]} :
            i \in 1..Len(obj) }

\* what g returns for the key on a new instance of the package's locale with
\* the options of the call
ResolvedFor(key) ==
    g(storage, PackageInstance(last.locale), key,
      [plugin |-> last.plugin, params |-> last.params, defaultVal |-> last.defaultVal,
       defaultParamVal |-> last.defaultParamVal]).ret

\* one leaf per key of storage, at the key's dotted position, holding what g
\* returns for the key
PackageMirrorsStorage ==
    /\ last.ret = JsObject
    /\ PackageLeaves(<<>>, last.package)
         = { [path |-> storage[i].k, v |-> ResolvedFor(storage[i].k)] :
             i \in 1..Len(storage) }

\* C19: the package holds one leaf per key of storage, at the key's dotted
\* position, with the value g returns for the key and the locale.
C19_PackageMirrorsStorage ==
    last.op = "getLocalizationPackage" => PackageMirrorsStorage

----------------------------------------------------------------------------
(* C20: the startup load *)

\* the file could not be required, or one of its entries is invalid
FileFails(file) ==
    \/ ~file.loads
    \/ \E lf \in LeavesOf(<<>>, file.obj) : lf.t # "string"

\* C20: when init calls back after a load in which at most one file fails,
\* every leaf string of every other file is registered for the locale of its
\* file, and the callback receives true if and only if no file that was
\* required holds an invalid entry.
C20_FileFailureDoesNotAbortLoad ==
    (/\ last.op = "init.cb"
     /\ Cardinality({ i \in 1..Len(last.files) : FileFails(last.files[i]) }) <= 1)
    => /\ \A i \in 1..Len(last.files) :
             ~FileFails(last.files[i])
               => \A lf \in LeavesOf(<<>>, last.files[i].obj) :
                     LeafRegistered(storage, lf, last.files[i].path, NoPlugin)
       /\ last.ret = JsBool(\A i \in 1..Len(last.files) :
                               last.files[i].loads
                                 => \A lf \in LeavesOf(<<>>, last.files[i].obj) :
                                       lf.t = "string")

----------------------------------------------------------------------------
(* C21: resolution during the startup load *)

\* C21: no call of g is served between the start of init and its callback:
\* a call of g made while the load is pending is refused.
C21_NoResolveDuringLoad ==
    (IsG /\ loading) => last.ret = JsThrow

----------------------------------------------------------------------------
(* C22: parameter interpolation *)

ExampleTemplate == <<"{", "a", "}", "{", "b", "}">>
ExampleParams == <<[k |-> <<"a">>, v |-> <<"x">>]>>
\* the templates: the braces, the escape and two letters
Templates ==
    UNION { [1..n -> {"{", "}", "%", "a", "b"}] : n \in 0..MaxTemplate }
    \cup {ExampleTemplate}

\* the arguments of one call of replaceParameters; params: none, a value for
\* a, an empty value for a and a value for b; defaultVal: not given, a string,
\* the empty string
InitInterpolate ==
    /\ storage = <<>>
    /\ supportedLookup = <<>>
    /\ supported = <<>>
    /\ inst = [i \in Insts |-> NoInstance]
    /\ loading = FALSE
    /\ ops = 0
    /\ last \in { [NoCall EXCEPT !.op = "template", !.value = t, !.params = ps,
                                   !.defaultParamVal = d] :
                   t \in Templates,
                   ps \in { <<>>, ExampleParams,
                            <<[k |-> <<"a">>, v |-> <<>>],
                              [k |-> <<"b">>, v |-> <<"y">>]>> },
                   d \in { <<>>, <<<<"d">>>>, <<<<>>>> } }

\* Localization.replaceParameters(value, params, defaultVal)
ReplaceParameters ==
    /\ last.op = "template"
    /\ last' = [last EXCEPT !.op = "replaceParameters",
                            !.ret = JsString(replaceParameters(last.value, last.params,
                                                               last.defaultParamVal))]
    /\ UNCHANGED <<storage, supportedLookup, supported, inst, loading, ops>>

SpecInterpolate == InitInterpolate /\ [][ReplaceParameters]_vars

\* position j of the template holds a brace that is not escaped
Unescaped(value, j) == value[j] = "{" /\ (j = 1 \/ value[j - 1] # "%")

\* the unescaped opening braces before position i with no closing brace
\* between them and i: position i lies in a placeholder when there is one,
\* and the placeholder starts at the first of them
OpenersOf(value, i) ==
    { j \in 1..(i - 1) :
        Unescaped(value, j) /\ \A m \in (j + 1)..(i - 1) : value[m] # "}" }

\* what position i of the template contributes to the result: a character
\* outside a placeholder is copied, and the closing brace of a placeholder
\* gives what the placeholder is replaced by; emptyCounts says whether an
\* empty defaultVal counts as provided
Contribution(value, params, defaultVal, emptyCounts, i) ==
    IF OpenersOf(value, i) = {}
    THEN IF Unescaped(value, i) THEN <<>> ELSE <<value[i]>>
    ELSE IF value[i] = "}"
    THEN LET opener == CHOOSE j \in OpenersOf(value, i) :
                          \A j2 \in OpenersOf(value, i) : j <= j2
             name == SubSeq(value, opener + 1, i - 1)
         IN  IF \E e \in 1..Len(params) : params[e].k = name /\ params[e].v # <<>>
             THEN params[CHOOSE e \in 1..Len(params) : params[e].k = name].v
             ELSE IF defaultVal # <<>> /\ (emptyCounts \/ defaultVal[1] # <<>>)
             THEN defaultVal[1]
             ELSE name
    ELSE <<>>

\* the contributions of positions i.. of the template, in order
RECURSIVE Interpolated(_, _, _, _, _)
Interpolated(value, params, defaultVal, emptyCounts, i) ==
    IF i > Len(value) THEN <<>>
    ELSE Contribution(value, params, defaultVal, emptyCounts, i)
         \o Interpolated(value, params, defaultVal, emptyCounts, i + 1)

IsExampleCall ==
    /\ last.op = "replaceParameters"
    /\ last.value = ExampleTemplate /\ last.params = ExampleParams
    /\ last.defaultParamVal = <<>>

----------------------------------------------------------------------------
(* C24: parsing a locale *)

\* a structured locale as the caller passes it: its language and countryCode
\* properties are JavaScript values of any type
LocaleArg(language, countryCode) ==
    [t |-> "object", v |-> [language |-> language, countryCode |-> countryCode]]

\* Localization.parseLocaleStr(filePath) for an argument of any type:
\* [thrown, obj |-> the locale object returned]
parseLocaleStrOf(filePath) ==
    IF isObject(filePath)
    THEN IF ~isString(filePath.v.language)
         THEN [thrown |-> TRUE, obj |-> parseLocaleStr(<<>>)]
         ELSE IF filePath.v.countryCode.t \notin {"null", "undefined"}
                 /\ ~isString(filePath.v.countryCode)
         THEN [thrown |-> TRUE, obj |-> parseLocaleStr(<<>>)]
         ELSE \* the object is returned as it is
              [thrown |-> FALSE,
               obj |-> [language |-> <<filePath.v.language.v>>,
                        countryCode |-> IF isString(filePath.v.countryCode)
                                        THEN <<filePath.v.countryCode.v>> ELSE <<>>]]
    ELSE IF ~isString(filePath)
    THEN [thrown |-> TRUE, obj |-> parseLocaleStr(<<>>)]
    ELSE [thrown |-> FALSE, obj |-> parseLocaleStr(filePath.v)]

\* the arguments of parseLocaleStr: strings over a letter of each case and
\* the separators, locale strings and paths, structured locales, other values
ParseInputs ==
    { JsString(l) :
        l \in UNION { [1..n -> {"e", "N", "-", "/"}] : n \in 0..MaxLocale } }
    \cup { JsString(l) : l \in {EnUS, PathEnUS, JS_EXT, <<"/", "l", "/">> \o JS_EXT,
                                 <<"l", "\\">> \o Fr \o JS_EXT} }
    \cup { LocaleArg(l, c) :
             l \in {JsString(En), JsString(<<>>), JsUndefined, JsNumber("5")},
             c \in {JsString(<<"U", "S">>), JsUndefined, JsNull, JsNumber("5")} }
    \cup { JsUndefined, JsNull, JsNumber("5") }

\* the argument of one call of parseLocaleStr
InitParse ==
    /\ storage = <<>>
    /\ supportedLookup = <<>>
    /\ supported = <<>>
    /\ inst = [i \in Insts |-> NoInstance]
    /\ loading = FALSE
    /\ ops = 0
    /\ last \in { [NoCall EXCEPT !.op = "locale", !.form = f] : f \in ParseInputs }

\* Localization.parseLocaleStr(filePath)
ParseLocaleStr ==
    /\ last.op = "locale"
    /\ \E r \in {parseLocaleStrOf(last.form)} :
          last' = [last EXCEPT !.op = "parseLocaleStr", !.parsed = r.obj,
                               !.ret = IF r.thrown THEN JsThrow ELSE JsObject]
    /\ UNCHANGED <<storage, supportedLookup, supported, inst, loading, ops>>

SpecParse == InitParse /\ [][ParseLocaleStr]_vars

\* C24: parseLocaleStr throws for an argument that is neither a string nor a
\* well-formed structured locale, and never returns a locale whose language is
\* null or empty.
C24_ParseNeverReturnsEmptyLanguage ==
    last.op = "parseLocaleStr"
    => /\ (/\ ~isString(last.form)
           /\ ~(/\ isObject(last.form)
                 /\ isString(last.form.v.language)
                 /\ last.form.v.countryCode.t \in {"string", "null", "undefined"}))
          => last.ret = JsThrow
       /\ last.ret # JsThrow
            => (last.parsed.language # <<>> /\ last.parsed.language[1] # <<>>)

----------------------------------------------------------------------------
(* C23: calls with arguments of any type *)

\* an options object passed as an argument
OptionsArg(plugin, params) ==
    [t |-> "object", v |-> [plugin |-> plugin, params |-> params]]

\* a value in a boolean context
Truthy(x) ==
    /\ x.t \notin {"null", "undefined"}
    /\ ~(x.t = "number" /\ x.v = <<"0">>)
    /\ ~(x.t = "string" /\ x.v = <<>>)
    /\ ~(x.t = "boolean" /\ x.v = <<>>)

\* parseLocale(locale) for an argument of any type
parseLocaleArg(locale) ==
    IF isString(locale) THEN parseLocale(locale.v)
    ELSE IF isObject(locale)
    THEN [ok |-> isString(locale.v.language),
          obj |-> [language |-> IF isString(locale.v.language)
                                THEN <<locale.v.language.v>> ELSE <<>>,
                   countryCode |-> IF isString(locale.v.countryCode)
                                   THEN <<locale.v.countryCode.v>> ELSE <<>>]]
    ELSE [ok |-> FALSE, obj |-> parseLocaleStr(<<>>)]

\* assertOptions(options): TRUE when it returns, FALSE when it throws
assertOptions(options) == isObject(options) /\ isString(options.v.plugin)

\* options.plugin as the registry uses it: _.isString(options.plugin)
pluginOf(options) ==
    IF isObject(options) /\ isString(options.v.plugin) THEN options.v.plugin.v
    ELSE NoPlugin

\* registerLocalization (public) and _registerLocalization with arguments of
\* any type
RegisterLocalizationArgs(public, locale, key, value, options) ==
    /\ ops < MaxOps
    /\ ops' = ops + 1
    /\ \E p \in {parseLocaleArg(locale)} :
       \E returns \in {/\ public => assertOptions(options)
                       /\ p.ok /\ isString(key) /\ isString(value)} :
          /\ storage' = IF returns
                        THEN registerLocalizationIn(storage, p.obj, key.v, value.v,
                                                    pluginOf(options))
                        ELSE storage
          /\ last' = [NoCall EXCEPT !.op = "registerLocalization",
                         !.args = [NoArgs EXCEPT !.public = public, !.locale = locale,
                                      !.key = key, !.value = value, !.options = options],
                         !.ret = IF returns THEN JsBool(TRUE) ELSE JsThrow]
    /\ UNCHANGED <<supportedLookup, supported, inst, loading>>

\* registerLocale (public) and _registerLocale with arguments of any type
RegisterLocaleArgs(public, locale, localizations, options) ==
    /\ ops < MaxOps
    /\ ops' = ops + 1
    /\ \E p \in {parseLocaleArg(locale)} :
       \E returns \in {/\ public => assertOptions(options)
                       /\ p.ok /\ isObject(localizations)} :
          IF returns
          THEN \E r \in {registerLocaleIn(storage, supportedLookup, supported, p.obj,
                                          localizations.v, pluginOf(options))} :
                  /\ storage' = r.st
                  /\ supportedLookup' = r.lookup
                  /\ supported' = r.supported
                  /\ last' = [NoCall EXCEPT !.op = "registerLocale",
                                 !.args = [NoArgs EXCEPT !.public = public,
                                              !.locale = locale,
                                              !.localizations = localizations,
                                              !.options = options],
                                 !.ret = JsBool(r.ok)]
          ELSE /\ UNCHANGED <<storage, supportedLookup, supported>>
               /\ last' = [NoCall EXCEPT !.op = "registerLocale",
                              !.args = [NoArgs EXCEPT !.public = public,
                                           !.locale = locale,
                                           !.localizations = localizations,
                                           !.options = options],
                              !.ret = JsThrow]
    /\ UNCHANGED <<inst, loading>>

\* ls.g(key, options) with arguments of any type
GArgs(i, key, options) ==
    /\ inst[i].alive
    /\ \E opts \in {IF Truthy(options) THEN options
                     ELSE OptionsArg(JsUndefined, JsObject)} :
       \E params \in {IF isObject(opts) /\ Truthy(opts.v.params) THEN opts.v.params
                       ELSE JsObject} :
       \E returns \in {isString(key) /\ isObject(opts) /\ isObject(params)} :
          IF returns
          THEN \E r \in {g(storage, inst[i], key.v,
                            GOpt(pluginOf(opts), params.v, JsUndefined))} :
                  /\ inst' = [inst EXCEPT ![i].cache = r.cache]
                  /\ last' = [NoCall EXCEPT !.op = "g", !.self = i,
                                 !.locale = inst[i].language, !.key = key.v,
                                 !.plugin = pluginOf(opts), !.params = params.v,
                                 !.args = [NoArgs EXCEPT !.key = key, !.options = options],
                                 !.hit = Has(storage, key.v) /\ Has(inst[i].cache, key.v),
                                 !.ret = r.ret]
          ELSE /\ UNCHANGED inst
               /\ last' = [NoCall EXCEPT !.op = "g", !.self = i,
                              !.locale = inst[i].language,
                              !.args = [NoArgs EXCEPT !.key = key, !.options = options],
                              !.ret = JsThrow]
    /\ UNCHANGED <<storage, supportedLookup, supported, loading, ops>>

\* the arguments the calls are made with (lists: the values are of several
\* types)
LocaleArgs ==
    << JsString(EnUS), JsString(<<>>), JsUndefined,
       LocaleArg(JsString(En), JsUndefined), LocaleArg(JsString(<<>>), JsUndefined),
       LocaleArg(JsUndefined, JsUndefined) >>
KeyArgs == << JsString(KeyK), JsNumber("5") >>
ValueArgs == << JsString(ValV), JsNumber("5") >>
RegisterOptionArgs ==
    << JsUndefined, OptionsArg(JsUndefined, JsUndefined),
       OptionsArg(JsString(<<"pa">>), JsUndefined) >>
LocalizationsArgs ==
    << [t |-> "object", v |-> <<Leaf(KeyK, ValV)>>], JsString(ValV), JsUndefined >>
GOptionArgs ==
    << JsUndefined, JsNumber("0"), JsNumber("5"),
       OptionsArg(JsUndefined, JsUndefined),
       OptionsArg(JsUndefined, JsNumber("0")),
       OptionsArg(JsUndefined, JsNumber("5")),
       OptionsArg(JsUndefined, [t |-> "object", v |-> <<[k |-> <<"p">>, v |-> <<"x">>]>>]) >>

NextArgs ==
    \/ \E i \in Insts : NewLocalization(i, EnUS, NoPlugin)
    \/ \E i \in Insts, key \in DOMAIN KeyArgs, o \in DOMAIN GOptionArgs :
          GArgs(i, KeyArgs[key], GOptionArgs[o])
    \/ \E pub \in BOOLEAN, l \in DOMAIN LocaleArgs, key \in DOMAIN KeyArgs,
          v \in DOMAIN ValueArgs, o \in DOMAIN RegisterOptionArgs :
          RegisterLocalizationArgs(pub, LocaleArgs[l], KeyArgs[key], ValueArgs[v],
                                   RegisterOptionArgs[o])
    \/ \E pub \in BOOLEAN, l \in DOMAIN LocaleArgs, m \in DOMAIN LocalizationsArgs,
          o \in DOMAIN RegisterOptionArgs :
          RegisterLocaleArgs(pub, LocaleArgs[l], LocalizationsArgs[m],
                             RegisterOptionArgs[o])

SpecArgs == Init /\ [][NextArgs]_vars

\* the locale is missing, of a wrong type, or without a language
InvalidLocale(locale) ==
    IF isString(locale) THEN parseLocaleStr(locale.v).language = <<>>
    ELSE IF isObject(locale)
    THEN ~isString(locale.v.language) \/ locale.v.language.v = <<>>
    ELSE TRUE

\* C23: a call with an invalid argument throws and leaves storage, the lookup,
\* the negotiation list and the instances' caches as they were.
C23_InvalidArgumentThrows ==
    [][ (\/ /\ last'.op = "registerLocalization"
            /\ \/ ~isString(last'.args.key) \/ ~isString(last'.args.value)
               \/ InvalidLocale(last'.args.locale)
               \/ last'.args.public /\ ~assertOptions(last'.args.options)
         \/ /\ last'.op = "registerLocale"
            /\ \/ ~isObject(last'.args.localizations)
               \/ InvalidLocale(last'.args.locale)
               \/ last'.args.public /\ ~assertOptions(last'.args.options)
         \/ /\ last'.op = "g"
            /\ \/ ~isString(last'.args.key)
               \/ last'.args.options.t \notin {"object", "undefined"}
               \/ /\ isObject(last'.args.options)
                  /\ last'.args.options.v.params.t \notin {"object", "undefined"})
        => /\ last'.ret = JsThrow
           /\ UNCHANGED <<storage, supportedLookup, supported, inst>> ]_vars

----------------------------------------------------------------------------
(* C25: the other plugins of a tier *)

\* the tier of the instance's locale that decides a call of g: the country
\* block when it holds a value, the language block otherwise
ResolvingTier ==
    IF TierValues(CountryTier(storage, last.key, Self.localeObj)) # {}
    THEN CountryTier(storage, last.key, Self.localeObj)
    ELSE LangTier(storage, last.key, Self.localeObj)

\* the tier holds plugin slots and none for the prioritized plugin
OtherPluginsOnlyIn(tier) ==
    /\ PluginValues(tier) # {}
    /\ SlotValuesOf(tier, EffectivePlugin) = {}

\* g returned the value of the plugin registered first in the tier
FirstRegisteredReturned(tier) ==
    last.ret \in Rendered({tier[1].plugins[1][1].v})

\* when the tier holds slots of other plugins only, g returned the value of
\* the first of them
FirstOfOthers(tier) == OtherPluginsOnlyIn(tier) => FirstRegisteredReturned(tier)

\* the plugins of a block, in the order Object.keys reports them
PluginOrder(tier) ==
    IF tier = <<>> \/ tier[1].plugins = <<>> THEN <<>> ELSE ObjectKeys(tier[1].plugins[1])

\* the order after a registration for a plugin: a new plugin comes after
\* the plugins of the block, a plugin of the block keeps its position
RegistrationKeepsOrder ==
    (IsRegisterLocalizationStep /\ last'.plugin # <<>>)
    => LET kept(before, after, plugin) ==
               after = (IF \E i \in 1..Len(before) : before[i] = plugin THEN before
                        ELSE Append(before, plugin))
       IN  kept(PluginOrder(OwnTier(storage, last'.key, parseLocaleStr(last'.locale))),
                PluginOrder(OwnTier(storage', last'.key, parseLocaleStr(last'.locale))),
                last'.plugin[1])

----------------------------------------------------------------------------
(* C26: what g changes *)

\* two instances that live at the same time
TwoInsts == {"i1", "i2"}

InitInstances ==
    /\ storage = <<>>
    /\ supportedLookup = <<>>
    /\ supported = <<>>
    /\ inst = [i \in TwoInsts |-> NoInstance]
    /\ loading = FALSE
    /\ ops = 0
    /\ last = NoCall

NextInstances ==
    \/ \E i \in TwoInsts, l \in {EnUS, Fr} : NewLocalization(i, l, NoPlugin)
    \/ \E i \in TwoInsts, key \in Keys, h \in {NoPlugin, <<"pz">>} :
          G(i, key, GOpt(h, <<>>, JsUndefined))
    \/ \E l \in {EnUS, En}, key \in Keys, p \in ScopeOpts :
          RegisterLocalization(l, key, ValV, p)

SpecInstances == InitInstances /\ [][NextInstances]_vars

\* C26: a call of g leaves storage, the lookup, the negotiation list, the
\* locale of its instance and every other instance as they were; in the cache
\* of its instance it changes at most the entry of the key.
C26_ResolveIsReadOnly ==
    [][ last'.op = "g"
        => /\ UNCHANGED <<storage, supportedLookup, supported>>
           /\ \A j \in DOMAIN inst : j # last'.self => inst'[j] = inst[j]
           /\ inst'[last'.self].language = inst[last'.self].language
           /\ inst'[last'.self].localeObj = inst[last'.self].localeObj
           /\ inst'[last'.self].activeTheme = inst[last'.self].activeTheme
           /\ Del(inst'[last'.self].cache, last'.key)
                = Del(inst[last'.self].cache, last'.key) ]_vars

C26_Witness ==
    /\ IsG /\ ~last.hit
    /\ Self.localeObj # DefaultLocaleObj
    /\ NoValueFor(storage, last.key, Self.localeObj)
    /\ Has(Self.cache, last.key)
    /\ Len(Self.cache) = 1
    /\ \E j \in DOMAIN inst :
          /\ j # last.self /\ inst[j].alive
          /\ inst[j].cache # <<>> /\ ~Has(inst[j].cache, last.key)

----------------------------------------------------------------------------
(* C27: resolution after a mutation *)

\* the values storage holds now in the tier that decides for a locale
DecidingValues(loc) ==
    IF TierValues(CountryTier(storage, last.key, loc)) # {}
    THEN TierValues(CountryTier(storage, last.key, loc))
    ELSE TierValues(LangTier(storage, last.key, loc))

\* g returned a value that storage holds when the call is made for the key
\* (one of the instance's locale, or of the default locale when it has none),
\* or, when storage holds none, one of the fallbacks: the key, defaultVal or
\* null
ReturnsCurrentValue ==
    LET returns(current) ==
            IF current # {} THEN last.ret \in Rendered(current)
            ELSE last.ret \in {JsString(last.key), last.defaultVal, JsNull}
    IN  returns(IF ~Has(storage, last.key) THEN {}
                ELSE IF DecidingValues(Self.localeObj) # {}
                THEN DecidingValues(Self.localeObj)
                ELSE DecidingValues(DefaultLocaleObj))

\* C27: every call of g returns a value that storage holds when the call is
\* made: never one that a registration has overwritten or an unregistration
\* or init has removed before.
C27_ResolveReflectsMutations ==
    IsG => ReturnsCurrentValue

\* C27 as amended: the same, for a call that does not find the key in the
\* instance's cache.
C27_ResolveReflectsMutationsOnMiss ==
    (IsG /\ ~last.hit) => ReturnsCurrentValue

\* a call that walks the tree after the value of the instance's country was
\* removed: the country block is there and holds nothing
C27_Witness ==
    /\ IsG /\ ~last.hit /\ Has(storage, last.key)
    /\ CountryTier(storage, last.key, Self.localeObj) # <<>>
    /\ TierValues(CountryTier(storage, last.key, Self.localeObj)) = {}
    /\ last.ret = JsString(last.key)

----------------------------------------------------------------------------
(* C28: the callback of init *)

\* the files found at startup, with files of every kind: a file that exports
\* a string instead of an object, and a file whose name holds no language
FileListsAny ==
    FileLists
    \cup { <<>>,
           <<File(PathEnUS, TRUE, <<Leaf(KeyK, ValV)>>), [File(PathFr, TRUE, <<>>) EXCEPT !.t = "string"]>>,
           <<File(<<"/", "l", "/">> \o JS_EXT, TRUE, <<Leaf(KeyK, ValV)>>)>>,
           <<File(PathFr, TRUE, <<Other(KeyK)>>), [File(PathEnUS, TRUE, <<>>) EXCEPT !.t = "string"]>> }

\* the file listing settles
InitSettles ==
    \/ \E f \in FileListsAny : InitLoaded(f)
    \/ InitListFailed

NextInit ==
    \/ InitStart
    \/ InitSettles
    \/ \E l \in LocaleStrs, key \in Keys, v \in Values :
          RegisterLocalization(l, key, v, NoPlugin)

\* the promise of FileUtils.getFiles is settled at some time
SpecInit == Init /\ [][NextInit]_vars /\ WF_vars(InitSettles)

\* C28: after every call of init the callback is invoked, once, whatever the
\* file listing gives and whatever the files hold.
C28_InitCallsBackOnce ==
    (last.op = "init")
      ~> (last.op \in {"init.cb", "init.failed", "init.rejected"} /\ last.cb = 1)

====
